---------------------------- MODULE Spec2Model ----------------------------
(***************************************************************************)
(* Evaluate-SQL-Where-Clause: a WHERE clause is a list of typed conditions *)
(* joined by AND / OR, evaluated against a header (column name -> index)   *)
(* and a row of string cells.                                              *)
(*                                                                         *)
(* Two programs are modelled side by side:                                 *)
(*   - the iterative one (src/unnamed/part_000, lines 1-254), whose        *)
(*     conditions catch conversion errors, and                             *)
(*   - the recursive one (src/where.cpp; src/unnamed/part_000, lines       *)
(*     256-440, is the same program), whose conditions let the exceptions  *)
(*     of std::stoi / std::stod escape.                                    *)
(* A clause is built in both at once: AddOperator pushes the operator in   *)
(* the encoding of each program.                                           *)
(*                                                                         *)
(* Strings are sequences of one-character strings; vectors are sequences   *)
(* (the code's 0-based index i is the sequence index i + 1); the header is *)
(* a function whose DOMAIN is the set of keys of the std::map.             *)
(***************************************************************************)
EXTENDS Integers, Sequences, FiniteSets, TLC

VARIABLES
    conditions,   \* Where::conditions, part_000:147 / where.cpp:110
    operators,    \* Where::operators of the iterative program (Operator::AND / OR)
    operatorsR,   \* Where::operators of the recursive program (Where::AND / OR)
    header,       \* the caller's header_t, passed by reference to every eval
    call          \* what the most recent call did and returned

vars == <<conditions, operators, operatorsR, header, call>>

---------------------------------------------------------------------------
(* Bounds of the model *)

MaxConds == 4
MaxOps == 3
MaxCellLen == 3

---------------------------------------------------------------------------
(* Operator constants *)

EQ == 0
NE == 1
LT == 2
LE == 3
GT == 4
GE == 5
AND == 7
OR == 8
WhereAND == 0
WhereOR == 1

ComparisonOps == {EQ, NE, LT, LE, GT, GE}

\* static std::string ops[8], 0-based
opsTable == <<"=", "!=", "<", "<=", ">", ">=", "AND", "OR">>

\* Operator::toString: ops[op]; an index outside the table is an
\* out-of-bounds read of the array (undefined behaviour).
toString(op) ==
    IF op >= 0 /\ op < Len(opsTable)
    THEN [status |-> "ok", token |-> opsTable[op + 1]]
    ELSE [status |-> "ub", token |-> ""]

---------------------------------------------------------------------------
(* Characters and strings *)

\* the code of a character (ASCII), which orders std::string comparisons
Ord(c) ==
    CASE c = " " -> 32
      [] c = "+" -> 43
      [] c = "-" -> 45
      [] c = "." -> 46
      [] c = "0" -> 48
      [] c = "1" -> 49
      [] c = "2" -> 50
      [] c = "3" -> 51
      [] c = "4" -> 52
      [] c = "5" -> 53
      [] c = "6" -> 54
      [] c = "7" -> 55
      [] c = "8" -> 56
      [] c = "9" -> 57
      [] c = "a" -> 97
      [] c = "b" -> 98

IsSpace(c) == c = " "
IsDigit(c) == c \in {"0", "1", "2", "3", "4", "5", "6", "7", "8", "9"}
DigitVal(c) == Ord(c) - 48

\* std::string operator< : lexicographic on the characters, then on length
RECURSIVE StrLessFrom(_, _, _)
StrLessFrom(a, b, i) ==
    IF i > Len(b) THEN FALSE
    ELSE IF i > Len(a) THEN TRUE
    ELSE IF Ord(a[i]) < Ord(b[i]) THEN TRUE
    ELSE IF Ord(a[i]) > Ord(b[i]) THEN FALSE
    ELSE StrLessFrom(a, b, i + 1)

StrLess(a, b) == StrLessFrom(a, b, 1)

---------------------------------------------------------------------------
(* std::stoi and std::stod *)

INT_MAX == 2147483647
INT_MIN == -2147483647 - 1

RECURSIVE SkipSpace(_, _)
SkipSpace(s, i) ==
    IF i <= Len(s) /\ IsSpace(s[i]) THEN SkipSpace(s, i + 1) ELSE i

SignEnd(s, i) ==
    IF i <= Len(s) /\ s[i] \in {"+", "-"} THEN i + 1 ELSE i

RECURSIVE DigitsEnd(_, _)
DigitsEnd(s, i) ==
    IF i <= Len(s) /\ IsDigit(s[i]) THEN DigitsEnd(s, i + 1) ELSE i

RECURSIVE NegDigits(_, _, _, _)

\* one digit d appended to the non-positive number acc
NegDigit(s, i, j, acc, d) ==
    IF acc < -214748364 \/ (acc = -214748364 /\ d > 8)
    THEN [over |-> TRUE, neg |-> 0]
    ELSE NegDigits(s, i + 1, j, acc * 10 - d)

\* The digits s[i..j-1] accumulated as a non-positive number, so that the
\* magnitude of INT_MIN fits; over once the magnitude exceeds 2^31.
NegDigits(s, i, j, acc) ==
    IF i >= j THEN [over |-> FALSE, neg |-> acc]
    ELSE NegDigit(s, i, j, acc, DigitVal(s[i]))

\* the int of the digits m read with sign minus, or out_of_range
stoiValue(minus, m) ==
    IF m.over \/ (~minus /\ m.neg = INT_MIN)
    THEN [kind |-> "out_of_range", val |-> 0]
    ELSE [kind |-> "ok", val |-> IF minus THEN m.neg ELSE 0 - m.neg]

\* the digits are s[j..k-1]; none is invalid_argument
stoiDigits(s, minus, j, k) ==
    IF k = j THEN [kind |-> "invalid_argument", val |-> 0]
    ELSE stoiValue(minus, NegDigits(s, j, k, 0))

\* the sign, if any, is s[i]; the digits start at j
stoiSigned(s, i, j) == stoiDigits(s, j > i /\ s[i] = "-", j, DigitsEnd(s, j))

\* the number starts at i, after the white space
stoiFrom(s, i) == stoiSigned(s, i, SignEnd(s, i))

\* std::stoi(str): skips leading white space, takes an optional sign and the
\* longest run of digits, ignores what follows. No digit: invalid_argument.
\* Value outside int: out_of_range.
stoi(s) == stoiFrom(s, SkipSpace(s, 1))

RECURSIVE Pow10(_)
Pow10(n) == IF n = 0 THEN 1 ELSE 10 * Pow10(n - 1)

\* the fraction of the whole digits w and the nFrac fraction digits f
stodValue(minus, w, f, den) ==
    [kind |-> "ok",
     num |-> IF minus THEN w.neg * den + f.neg ELSE 0 - (w.neg * den + f.neg),
     den |-> den]

\* whole digits s[j..k-1], fraction digits s[k+1..m-1] when s[k] is a point
\* (m = k + 1 when there is none, m = k without a point)
stodDigits(s, minus, j, k, m) ==
    IF (k - j) + (IF m > k THEN m - (k + 1) ELSE 0) = 0
    THEN [kind |-> "invalid_argument", num |-> 0, den |-> 1]
    ELSE stodValue(minus, NegDigits(s, j, k, 0), NegDigits(s, k + 1, m, 0),
                   Pow10(IF m > k THEN m - (k + 1) ELSE 0))

\* the whole digits end at k
stodPoint(s, minus, j, k) ==
    stodDigits(s, minus, j, k,
               IF k <= Len(s) /\ s[k] = "." THEN DigitsEnd(s, k + 1) ELSE k)

stodSigned(s, i, j) == stodPoint(s, j > i /\ s[i] = "-", j, DigitsEnd(s, j))

stodFrom(s, i) == stodSigned(s, i, SignEnd(s, i))

\* (float)std::stod(str) on decimal text without exponent: white space, sign,
\* digits, optionally a point and more digits; at least one digit is needed.
\* The value is kept as the exact fraction num / den: with at most six
\* significant digits the conversion to float is one-to-one and monotone, so
\* comparing the fractions is comparing the floats.
stod(s) == stodFrom(s, SkipSpace(s, 1))

---------------------------------------------------------------------------
(* Conditions *)

\* header[column] of std::map: the index of a present key; an absent key is
\* inserted with the value-initialised index 0.
HeaderLookup(h, column) ==
    IF column \in DOMAIN h
    THEN [index |-> h[column], header |-> h]
    ELSE [index |-> 0,
          header |-> [k \in DOMAIN h \cup {column} |-> IF k = column THEN 0 ELSE h[k]]]

\* A value of type T (std::string, int or float): the string, or the number
\* num / den (den = 1 for an int).
StringValue(s) == [str |-> s, num |-> 0, den |-> 1]
IntValue(n) == [str |-> <<>>, num |-> n, den |-> 1]
FloatValue(n, d) == [str |-> <<>>, num |-> n, den |-> d]

\* the switch over op, given val < value and val == value
Compare(op, less, equal) ==
    CASE op = EQ -> equal
      [] op = NE -> ~equal
      [] op = LT -> less
      [] op = LE -> less \/ equal
      [] op = GT -> ~less /\ ~equal
      [] op = GE -> ~less
      [] OTHER -> FALSE

\* val OP value in the type of the condition
CompareTyped(c, val) ==
    IF c.type = "string"
    THEN Compare(c.op, StrLess(val.str, c.value.str), val.str = c.value.str)
    ELSE Compare(c.op, val.num * c.value.den < c.value.num * val.den,
                       val.num * c.value.den = c.value.num * val.den)

IntResult(n) == [kind |-> n.kind, val |-> IntValue(n.val)]
FloatResult(d) == [kind |-> d.kind, val |-> FloatValue(d.num, d.den)]

\* the conversion of a cell to the type of the condition: the identity for
\* std::string, std::stoi for int, (float)std::stod for float
Convert(c, cell) ==
    CASE c.type = "string" -> [kind |-> "ok", val |-> StringValue(cell)]
      [] c.type = "int" -> IntResult(stoi(cell))
      [] c.type = "float" -> FloatResult(stod(cell))

\* getColumnValue after the conversion v: false when it threw
Converted(h, v) == [status |-> "ok", ok |-> v.kind = "ok", val |-> v.val, header |-> h]

\* row[l.index] converted; a cell index outside the row is an out-of-bounds
\* read
GetCell(c, row, l) ==
    IF l.index < 0 \/ l.index >= Len(row)
    THEN [status |-> "ub", ok |-> FALSE, val |-> IntValue(0), header |-> l.header]
    ELSE Converted(l.header, Convert(c, row[l.index + 1]))

\* Condition<T>::getColumnValue: row[header[column]] converted to T;
\* false when the conversion throws.
getColumnValue(c, h, row) == GetCell(c, row, HeaderLookup(h, c.column))

\* the switch of Condition<T>::eval when getColumnValue returned true,
\* result = false when it returned false
Switch(c, g) ==
    IF g.status = "ub" THEN [status |-> "ub", ret |-> FALSE, header |-> g.header]
    ELSE IF g.ok THEN [status |-> "ok", ret |-> CompareTyped(c, g.val), header |-> g.header]
    ELSE [status |-> "ok", ret |-> FALSE, header |-> g.header]

\* Condition<T>::eval of the iterative program
ConditionEval(c, h, row) == Switch(c, getColumnValue(c, h, row))

\* the switch of the recursive program's Condition<T>::eval; the conversion
\* is not guarded, its exception leaves eval
SwitchR(c, g) ==
    IF g.status = "ub" THEN [status |-> "ub", ret |-> FALSE, header |-> g.header]
    ELSE IF g.ok THEN [status |-> "ok", ret |-> CompareTyped(c, g.val), header |-> g.header]
    ELSE [status |-> "throw", ret |-> FALSE, header |-> g.header]

\* Condition<T>::eval of the recursive program
ConditionEvalR(c, h, row) == SwitchR(c, GetCell(c, row, HeaderLookup(h, c.column)))

---------------------------------------------------------------------------
(* Where::eval *)

\* The running state of one Where::eval call. log: the indices i of the
\* conditions[i] read and evaluated, in order; opReads: the indices i of the
\* operators[i] read, in order. Both are the code's 0-based indices.
\* status: "run", "ret" (returned result), "throw" (an exception left eval),
\* "ub" (an out-of-bounds read happened).
EvalStart(h) ==
    [op_index |-> 0, result |-> FALSE, log |-> <<>>, opReads |-> <<>>,
     header |-> h, status |-> "run"]

\* the state after conditions[i]->eval returned or threw r
Evaluated(st, i, r) ==
    [st EXCEPT !.log = Append(@, i),
               !.header = r.header,
               !.result = r.ret,
               !.status = IF r.status = "ok" THEN "run" ELSE r.status]

\* result = conditions[i]->eval(header, row), in the program `kind`
EvalCondition(kind, w, i, st) ==
    IF i < 0 \/ i >= Len(w.conditions)
    THEN [st EXCEPT !.log = Append(@, i), !.status = "ub"]
    ELSE Evaluated(st, i,
            IF kind = "iter" THEN ConditionEval(w.conditions[i + 1], st.header, w.row)
                             ELSE ConditionEvalR(w.conditions[i + 1], st.header, w.row))

\* the loop guard off by one: op_index <= operators.size()
WhileCondOffByOne(w, st) == st.op_index <= Len(w.operators)

\* while (op_index < operators.size())
WhileCond(w, st) == st.op_index < Len(w.operators)

\* The loop turn without the early return on OR: the next condition always
\* replaces the result.
WhileBodyNoStop(w, st) ==
    LET op == w.operators[st.op_index + 1]
        s1 == [st EXCEPT !.opReads = Append(@, st.op_index), !.op_index = @ + 1]
    IN  IF st.op_index >= Len(w.operators) THEN [s1 EXCEPT !.status = "ub"]
        ELSE IF op = AND
        THEN IF st.result THEN EvalCondition("iter", w, s1.op_index, s1) ELSE s1
        ELSE EvalCondition("iter", w, s1.op_index, s1)

\* The loop turn without the skip on AND: the next condition is evaluated
\* whatever the result, and and-ed to it.
WhileBodyNoSkip(w, st) ==
    LET op == w.operators[st.op_index + 1]
        s1 == [st EXCEPT !.opReads = Append(@, st.op_index), !.op_index = @ + 1]
        e == EvalCondition("iter", w, s1.op_index, s1)
    IN  IF st.op_index >= Len(w.operators) THEN [s1 EXCEPT !.status = "ub"]
        ELSE IF op = AND
        THEN [e EXCEPT !.result = st.result /\ e.result]
        ELSE IF st.result THEN [s1 EXCEPT !.status = "ret"]
             ELSE e

\* One turn of the loop of the iterative Where::eval (part_000:181-209).
WhileBody(w, st) ==
    LET op == w.operators[st.op_index + 1]
        s1 == [st EXCEPT !.opReads = Append(@, st.op_index), !.op_index = @ + 1]
    IN  IF st.op_index >= Len(w.operators) THEN [s1 EXCEPT !.status = "ub"]
        ELSE IF op = AND
        THEN IF st.result THEN EvalCondition("iter", w, s1.op_index, s1) ELSE s1
        ELSE IF st.result THEN [s1 EXCEPT !.status = "ret"]
             ELSE EvalCondition("iter", w, s1.op_index, s1)

RECURSIVE While(_, _)
While(w, st) ==
    IF st.status # "run" THEN st
    ELSE IF WhileCond(w, st) THEN While(w, WhileBody(w, st))
    ELSE [st EXCEPT !.status = "ret"]

\* The iterative Where::eval(header, row) (part_000:174-213).
WhereEval(w, h) == While(w, EvalCondition("iter", w, 0, EvalStart(h)))

RECURSIVE WhereEvalR(_, _, _)

\* The recursive loop turn with the operands of && swapped:
\* `conditions[op_index]->eval() && result`.
WhileBodyRSwapped(w, st) ==
    LET op == w.operators[st.op_index + 1]
        s1 == [st EXCEPT !.opReads = Append(@, st.op_index), !.op_index = @ + 1]
        e == EvalCondition("rec", w, s1.op_index, s1)
    IN  IF st.op_index >= Len(w.operators) THEN [s1 EXCEPT !.status = "ub"]
        ELSE IF op = WhereAND
        THEN [e EXCEPT !.result = e.result /\ st.result]
        ELSE IF st.result THEN [s1 EXCEPT !.status = "ret"]
             ELSE WhereEvalR(w, s1.op_index, s1)

\* One turn of the loop of the recursive Where::eval (where.cpp:143-157):
\* `result && c->eval()` on AND, `result || eval(op_index)` then break on OR.
WhileBodyR(w, st) ==
    LET op == w.operators[st.op_index + 1]
        s1 == [st EXCEPT !.opReads = Append(@, st.op_index), !.op_index = @ + 1]
    IN  IF st.op_index >= Len(w.operators) THEN [s1 EXCEPT !.status = "ub"]
        ELSE IF op = WhereAND
        THEN IF st.result THEN EvalCondition("rec", w, s1.op_index, s1) ELSE s1
        ELSE IF st.result THEN [s1 EXCEPT !.status = "ret"]
             ELSE WhereEvalR(w, s1.op_index, s1)

RECURSIVE WhileR(_, _)
WhileR(w, st) ==
    IF st.status # "run" THEN st
    ELSE IF WhileCond(w, st) THEN WhileR(w, WhileBodyR(w, st))
    ELSE [st EXCEPT !.status = "ret"]

\* The recursive Where::eval(header, row, op_index) (where.cpp:133-161).
WhereEvalR(w, op_index, st) ==
    WhileR(w, EvalCondition("rec", w, op_index, [st EXCEPT !.op_index = op_index]))

---------------------------------------------------------------------------
(* Inputs *)

Str1(c) == <<c>>

\* the conditions a clause is built from
CondSet ==
    { [type |-> "string", column |-> "name", op |-> EQ, value |-> StringValue(Str1("a"))],
      [type |-> "int", column |-> "age", op |-> GT, value |-> IntValue(1)],
      [type |-> "string", column |-> "zip", op |-> NE, value |-> StringValue(Str1("a"))] }

\* the rows a clause is evaluated on: <<name, age>>
Rows == { <<n, a>> : n \in {Str1("a"), Str1("b")}, a \in {Str1("1"), Str1("2"), Str1("a")} }

Header0 == [k \in {"name", "age"} |-> IF k = "name" THEN 0 ELSE 1]

NoCall == [kind |-> "none"]

\* What the caller observes of a finished eval. After an out-of-bounds read
\* the call may crash or return either boolean.
Outcomes(kind, row, h, st) ==
    LET base == [kind |-> kind, row |-> row, header0 |-> h, header |-> st.header,
                 status |-> st.status, log |-> st.log, opReads |-> st.opReads]
    IN  CASE st.status = "ret" ->
                { [outcome |-> "returned", ret |-> st.result] @@ base }
          [] st.status = "throw" ->
                { [outcome |-> "exception", ret |-> FALSE] @@ base }
          [] OTHER ->
                { [outcome |-> "crash", ret |-> FALSE] @@ base }
                \cup { [outcome |-> "returned", ret |-> b] @@ base : b \in BOOLEAN }

---------------------------------------------------------------------------
(* The clause under construction and its evaluation *)

Init ==
    /\ conditions = <<>>
    /\ operators = <<>>
    /\ operatorsR = <<>>
    /\ header = Header0
    /\ call = NoCall

\* Where::AddCondition
AddCondition ==
    \E c \in CondSet :
        /\ Len(conditions) < MaxConds
        /\ conditions' = Append(conditions, c)
        /\ call' = NoCall
        /\ UNCHANGED <<operators, operatorsR, header>>

\* Where::AddOperator, with Operator::AND / OR in the iterative program and
\* Where::AND / OR in the recursive one
AddOperator ==
    \E l \in {"AND", "OR"} :
        /\ Len(operators) < MaxOps
        /\ operators' = Append(operators, IF l = "AND" THEN AND ELSE OR)
        /\ operatorsR' = Append(operatorsR, IF l = "AND" THEN WhereAND ELSE WhereOR)
        /\ call' = NoCall
        /\ UNCHANGED <<conditions, header>>

\* the caller after an eval that ended in st: the header it passed by
\* reference is the one eval left
Return(kind, row, st) ==
    /\ call' \in Outcomes(kind, row, header, st)
    /\ header' = st.header
    /\ UNCHANGED <<conditions, operators, operatorsR>>

\* w->eval(header, row) of the iterative program
Eval ==
    \E row \in Rows :
        Return("iter", row,
               WhereEval([conditions |-> conditions, operators |-> operators,
                          row |-> row], header))

\* w->eval(header, row) of the recursive program
EvalR ==
    \E row \in Rows :
        Return("rec", row,
               WhereEvalR([conditions |-> conditions, operators |-> operatorsR,
                           row |-> row], 0, EvalStart(header)))

Next == AddCondition \/ AddOperator \/ Eval \/ EvalR

Spec == Init /\ [][Next]_vars

---------------------------------------------------------------------------
(* One condition, one call: Condition::eval and Operator::toString on every *)
(* input of a bounded set                                                   *)

Alphabet == {"1", "2", "a", "-", ".", " "}

RECURSIVE StringsOfLen(_)
StringsOfLen(n) ==
    IF n = 0 THEN {<<>>}
    ELSE { Append(s, ch) : s \in StringsOfLen(n - 1), ch \in Alphabet }

\* INT_MAX and INT_MAX + 1 as text
BigCells ==
    { <<"2", "1", "4", "7", "4", "8", "3", "6", "4", "7">>,
      <<"2", "1", "4", "7", "4", "8", "3", "6", "4", "8">> }

Cells == UNION { StringsOfLen(n) : n \in 0..MaxCellLen }

\* the cells a condition of this type is tried on
CellsFor(c) == IF c.type = "int" THEN Cells \cup BigCells ELSE Cells

UnitOps == ComparisonOps \cup {AND}

UnitValues(type) ==
    CASE type = "int" -> {IntValue(1), IntValue(12)}
      [] type = "float" -> {FloatValue(3, 2)}
      [] type = "string" -> {StringValue(Str1("1"))}

UnitConds ==
    UNION { { [type |-> ty, column |-> col, op |-> op, value |-> v] :
                col \in {"age", "zip"}, op \in UnitOps, v \in UnitValues(ty) } :
            ty \in {"int", "float", "string"} }

OperatorConstants == {EQ, NE, LT, LE, GT, GE, AND, OR}

\* What the caller observes of Condition::eval.
CondOutcomes(kind, c, row, h, r) ==
    LET base == [kind |-> kind, c |-> c, row |-> row, header0 |-> h,
                 header |-> r.header, status |-> r.status,
                 cell |-> row[HeaderLookup(h, c.column).index + 1]]
    IN  CASE r.status = "ok" ->
                { [outcome |-> "returned", ret |-> r.ret] @@ base }
          [] r.status = "throw" ->
                { [outcome |-> "exception", ret |-> FALSE] @@ base }
          [] OTHER ->
                { [outcome |-> "crash", ret |-> FALSE] @@ base }
                \cup { [outcome |-> "returned", ret |-> b] @@ base : b \in BOOLEAN }

\* What the caller observes of Operator::toString. The read outside the
\* table may crash or yield any string.
ToStringOutcomes(op) ==
    LET r == toString(op)
        base == [kind |-> "toString", op |-> op, status |-> r.status]
    IN  IF r.status = "ok"
        THEN { [outcome |-> "returned", token |-> r.token] @@ base }
        ELSE { [outcome |-> "crash", token |-> ""] @@ base }
             \cup { [outcome |-> "returned", token |-> tk] @@ base :
                      tk \in { opsTable[i] : i \in 1..Len(opsTable) } \cup {""} }

\* the row <<name, age>> holding the cell
UnitRow(cell) == <<Str1("1"), cell>>

\* the caller after a Condition::eval that ended in r
ReturnCond(kind, c, row, r) ==
    /\ call' \in CondOutcomes(kind, c, row, header, r)
    /\ header' = r.header
    /\ UNCHANGED <<conditions, operators, operatorsR>>

InitUnit ==
    /\ conditions \in { <<c>> : c \in UnitConds }
    /\ operators = <<>>
    /\ operatorsR = <<>>
    /\ header = Header0
    /\ call = NoCall

\* conditions[0]->eval(header, row) of the iterative program
CallConditionEval ==
    /\ call.kind = "none"
    /\ \E cell \in CellsFor(conditions[1]) :
        ReturnCond("cond", conditions[1], UnitRow(cell),
                   ConditionEval(conditions[1], header, UnitRow(cell)))

\* conditions[0]->eval(header, row) of the recursive program
CallConditionEvalR ==
    /\ call.kind = "none"
    /\ \E cell \in CellsFor(conditions[1]) :
        ReturnCond("condR", conditions[1], UnitRow(cell),
                   ConditionEvalR(conditions[1], header, UnitRow(cell)))

\* Operator::toString(op)
CallToString ==
    /\ call.kind = "none"
    /\ \E op \in OperatorConstants :
        /\ call' \in ToStringOutcomes(op)
        /\ UNCHANGED <<conditions, operators, operatorsR, header>>

NextUnit == CallConditionEval \/ CallConditionEvalR \/ CallToString

SpecUnit == InitUnit /\ [][NextUnit]_vars

---------------------------------------------------------------------------
(* What the claims speak about *)

EvalCall == call.kind \in {"iter", "rec"}

NConds == Len(conditions)

\* N >= 1 conditions joined by N-1 operators
WellFormed == NConds >= 1 /\ Len(operators) = NConds - 1

\* the operator joining conditions[i] and conditions[i+1] is AND
JoinedByAnd(i) == operators[i + 1] = AND /\ operatorsR[i + 1] = WhereAND

\* conditions i..j (i <= j) lie in one AND-group
SameGroup(i, j) == \A k \in i..(j - 1) : JoinedByAnd(k)

\* the AND-group of condition i
Group(i) == { j \in 0..(NConds - 1) : IF j <= i THEN SameGroup(j, i) ELSE SameGroup(i, j) }

\* condition i evaluates to true on the input of the last call
Holds(i) ==
    LET r == IF call.kind = "iter"
             THEN ConditionEval(conditions[i + 1], call.header0, call.row)
             ELSE ConditionEvalR(conditions[i + 1], call.header0, call.row)
    IN  r.status = "ok" /\ r.ret

GroupTrue(i) == \A j \in Group(i) : Holds(j)

\* C1: on a clause of N >= 1 conditions and N-1 operators, Where::eval (either
\* program) returns true iff some AND-group has all its conditions true: AND
\* binds tighter than OR.
C1_AndGroups ==
    (EvalCall /\ WellFormed /\ call.outcome = "returned")
        => (call.ret <=> \E i \in 0..(NConds - 1) : GroupTrue(i))

\* A and B or C and D returned true through its second group, the first
\* being false.
C1_Witness ==
    /\ call.kind = "iter" /\ call.outcome = "returned" /\ call.ret
    /\ NConds = 4 /\ operators = <<AND, OR, AND>>
    /\ ~GroupTrue(0) /\ GroupTrue(2)

\* C2: one Where::eval call on a well-formed clause evaluates conditions
\* strictly left to right, and evaluates condition k only if every earlier
\* condition of its AND-group was true and no earlier AND-group was entirely
\* true.
C2_ShortCircuit ==
    (EvalCall /\ WellFormed) =>
        /\ \A a, b \in 1..Len(call.log) : a < b => call.log[a] < call.log[b]
        /\ \A a \in 1..Len(call.log) :
              LET k == call.log[a] IN
              /\ \A j \in Group(k) : j < k => Holds(j)
              /\ \A g \in 0..(k - 1) : g \notin Group(k) => ~GroupTrue(g)

\* A false, so B is skipped; C is evaluated after the OR and is false, so D
\* is skipped.
C2_Witness ==
    /\ call.kind = "iter" /\ call.outcome = "returned"
    /\ NConds = 4 /\ operators = <<AND, OR, AND>>
    /\ call.log = <<0, 2>>

\* C9: on a well-formed clause whose conditions all yield truth values, the
\* recursive and the iterative Where::eval return the same boolean and
\* evaluate the same conditions in the same order.
C9_RecursiveIterative ==
    (EvalCall /\ WellFormed) =>
        LET it == WhereEval([conditions |-> conditions, operators |-> operators,
                             row |-> call.row], call.header0)
            rc == WhereEvalR([conditions |-> conditions, operators |-> operatorsR,
                              row |-> call.row], 0, EvalStart(call.header0))
        IN  /\ call.kind = "rec" /\ call.outcome = "returned"
                => it.status = "ret" /\ it.result = call.ret /\ it.log = call.log
            /\ call.kind = "iter" /\ rc.status = "ret"
                => call.outcome = "returned" /\ rc.result = call.ret /\ rc.log = call.log

\* The recursive program returned true from its second recursion level.
C9_Witness ==
    /\ call.kind = "rec" /\ call.outcome = "returned" /\ call.ret
    /\ NConds = 4 /\ operatorsR = <<WhereAND, WhereOR, WhereAND>>
    /\ call.log = <<0, 2, 3>>

\* C10: on a clause of N >= 1 conditions and exactly N-1 operators, every
\* index Where::eval reads conditions with lies in 0..N-1 and every index it
\* reads operators with lies in 0..N-2, in both programs.
C10_IndicesInRange ==
    (EvalCall /\ WellFormed) =>
        /\ call.status # "ub"
        /\ \A a \in 1..Len(call.log) : call.log[a] \in 0..(NConds - 1)
        /\ \A a \in 1..Len(call.opReads) : call.opReads[a] \in 0..(NConds - 2)

\* Every operator and the last condition were read.
C10_Witness ==
    /\ EvalCall /\ NConds = 4 /\ WellFormed
    /\ call.opReads = <<0, 1, 2>>
    /\ call.log[Len(call.log)] = 3

\* C5: eval on a Where without conditions ends in a reported EmptyPredicate
\* error and reads no element of the condition list.
C5_EmptyPredicate ==
    (EvalCall /\ NConds = 0) => (call.outcome = "EmptyPredicate" /\ call.log = <<>>)

\* C6: eval leaves the header, the row and the clause as they were; the
\* header has the same (column name -> index) entries after eval as before.
C6_HeaderUnchanged ==
    EvalCall => (call.header = call.header0 /\ header = call.header0)

\* C7: whenever eval is invoked on a Where built by AddCondition and
\* AddOperator calls, operators.length == conditions.length - 1 with at least
\* one condition.
C7_BuilderInvariant ==
    EvalCall => WellFormed

CondCall == call.kind \in {"cond", "condR"}

\* the text is [spaces][sign]digits, nothing else, and the number fits an int
ParsesFullyAsInt(s) ==
    LET j == SignEnd(s, SkipSpace(s, 1)) IN
    /\ j <= Len(s)
    /\ \A k \in j..Len(s) : IsDigit(s[k])
    /\ stoi(s).kind # "out_of_range"

\* the text is [spaces][sign] digits with at most one point, and has a digit
ParsesFullyAsFloat(s) ==
    LET j == SignEnd(s, SkipSpace(s, 1)) IN
    /\ \A k \in j..Len(s) : IsDigit(s[k]) \/ s[k] = "."
    /\ Cardinality({ k \in j..Len(s) : s[k] = "." }) <= 1
    /\ \E k \in j..Len(s) : IsDigit(s[k])

ParsesFully(type, s) ==
    IF type = "int" THEN ParsesFullyAsInt(s) ELSE ParsesFullyAsFloat(s)

\* C3: a condition with an int or float literal, on a cell that does not
\* parse fully as that type, returns false and lets no exception reach the
\* caller.
C3_BadCellIsFalse ==
    (/\ CondCall
     /\ call.c.type \in {"int", "float"}
     /\ ~ParsesFully(call.c.type, call.cell))
        => (call.outcome = "returned" /\ call.ret = FALSE)

\* C4: a condition naming a column that is no key of the header ends in a
\* reported ColumnNotFound error.
C4_ColumnNotFound ==
    (CondCall /\ call.c.column \notin DOMAIN call.header0)
        => call.outcome = "ColumnNotFound"

\* the display token the catalog gives each operator constant
CanonicalToken(op) ==
    CASE op = EQ -> "="
      [] op = NE -> "!="
      [] op = LT -> "<"
      [] op = LE -> "<="
      [] op = GT -> ">"
      [] op = GE -> ">="
      [] op = AND -> "AND"
      [] op = OR -> "OR"

\* C8: Operator::toString maps each of the eight operator constants to its
\* canonical display token, reading only inside its token table.
C8_ToString ==
    call.kind = "toString"
        => (call.status = "ok" /\ call.outcome = "returned"
            /\ call.token = CanonicalToken(call.op))

===========================================================================
